---------------------------- MODULE Spec2Model ----------------------------
(***************************************************************************)
(* A model of async-h1 (src/src/client.rs, src/src/server.rs): the         *)
(* streaming Encoder shared by both roles, encode() of both roles, and     *)
(* decode() of both roles.                                                 *)
(*                                                                         *)
(* Bytes are modelled as tokens: a string is a sequence of tokens, CR and  *)
(* LF are tokens of their own, so that the head boundary CR LF CR LF, the  *)
(* cursor of the encoder and the caller's buffer sizes are all counted in  *)
(* the same unit.                                                          *)
(***************************************************************************)
EXTENDS Integers, Sequences, FiniteSets, TLC

VARIABLES
    \* ---- encode() and the Encoder (client.rs 22-35, server.rs 18-31)
    msg,              \* the message handed to encode()
    epc,              \* "encode" | "reading" | "failed" | "panicked"
    headers,          \* Encoder.headers
    cursor,           \* Encoder.cursor
    headers_done,     \* Encoder.headers_done
    body_done,        \* Encoder.body_done
    body_bytes_read,  \* Encoder.body_bytes_read
    bodyPos,          \* position of the body's own byte producer
    \* ---- what the caller of poll_read observes
    poll,             \* "none" | "Ready" | "Pending": the last call's result
    ret,              \* the byte count of the last Ready
    lastEmpty,        \* the last call was made with an empty buffer
    out,              \* every byte delivered to the caller so far
    zeroBuf,          \* some call was made with an empty buffer
    pendings,         \* how many calls have suspended
    bodyEof,          \* the body producer has reported exhaustion
    eofSeen,          \* some call on a non-empty buffer has returned 0
    \* ---- decode() (client.rs 135-245, server.rs 118-179)
    drole,            \* "client" (decode a response) | "server" (a request)
    wire,             \* what the peer put on the wire: head fields, head length
    source,           \* the bytes the transport yields before end-of-input
    rpos,             \* how many bytes the BufReader has handed out
    buf,              \* decode's accumulation buffer
    dpc,              \* "idle" | "reading" | "head" | "body" | "done"
    dres,             \* "running" | "message" | "nomessage" | "error" | "panic"
    derr,             \* the error's message
    reads,            \* calls of read_until so far
    dhead,            \* the decoded message's head: status, or method and target
    dheaders,         \* the decoded message's header set
    bodyKind,         \* "none" | "empty" | "fixed" | "chunked" | "reader"
    bodyLimit,        \* what is left of take(len)
    bodyStart,        \* rpos when the body was built
    bodyOut,          \* the bytes the body has yielded
    bodyEnd,          \* the body has reported end-of-data
    sent,             \* the chunks and trailer lines the peer wrote
    arrived,          \* how many bytes of source the transport has delivered
    cstate,           \* ChunkedDecoderState, "None" without a ChunkedDecoder
    remaining,        \* ReadingChunkData(remaining)
    trailers,         \* the trailer headers accumulated so far
    published,        \* what the one-shot trailers signal has been sent
    doneEntries       \* transitions into Done so far

encVars == <<msg, epc, headers, cursor, headers_done, body_done,
             body_bytes_read, bodyPos, poll, ret, lastEmpty, out, zeroBuf,
             pendings, bodyEof, eofSeen>>

decVars == <<drole, wire, source, rpos, buf, dpc, dres, derr, reads,
             dhead, dheaders, bodyKind, bodyLimit, bodyStart, bodyOut, bodyEnd>>

chunkVars == <<sent, arrived, cstate, remaining, trailers, published,
               doneEntries>>

vars == <<encVars, decVars, chunkVars>>

-----------------------------------------------------------------------------
(* Bounds of the model *)

\* longest body, in bytes
MaxBody == 2
\* most chunks of a chunked body before the terminal chunk
MaxChunks == 2
\* how many times the body producer may answer "not ready" in one run
MaxPending == 1
\* most header lines of a head on the wire
MaxHeaderLines == 2
\* most bytes on the wire after a head
MaxRest == 3

-----------------------------------------------------------------------------
(* Bytes and strings *)

CR == "\r"
LF == "\n"
None == "<none>"

Min(a, b) == IF a < b THEN a ELSE b

\* The body bytes b1, b2, ...: no head token is one of them.
BodyByteNames == <<"b1", "b2", "b3", "b4", "b5", "b6">>
BodyBytes == {BodyByteNames[i] : i \in 1..Len(BodyByteNames)}
BodyOfLen(n) == [i \in 1..n |-> BodyByteNames[i]]

\* Option<usize>: Some(n) is <<n>>, None is <<>>.
Some(n) == <<n>>
NoLen == <<>>

DigitChar == <<"0", "1", "2", "3", "4", "5", "6", "7", "8", "9">>

\* format!("{}", n) of an unsigned integer: its decimal digits.
RECURSIVE ToDec(_)
ToDec(n) ==
    IF n < 10 THEN <<DigitChar[n + 1]>>
    ELSE ToDec(n \div 10) \o <<DigitChar[(n % 10) + 1]>>

\* fmt_http_date(SystemTime::now()): one opaque token.
DateNow == "Mon, 02 Nov 2026 00:00:00 GMT"

\* format!("{}: {}\r\n", name, value)
HeaderLine(name, value) == <<name, ": ">> \o value \o <<CR, LF>>

RECURSIVE HeaderLines(_)
HeaderLines(hs) ==
    IF hs = <<>> THEN <<>>
    ELSE HeaderLine(hs[1].name, hs[1].value) \o HeaderLines(Tail(hs))

-----------------------------------------------------------------------------
(* encode(): client.rs 68-132, server.rs 82-115 *)

\* client.rs 71-79: path, then '#' fragment, then '?' query.
ClientTarget(url) ==
    <<url.path>>
    \o (IF url.fragment # None THEN <<"#", url.fragment>> ELSE <<>>)
    \o (IF url.query # None THEN <<"?", url.query>> ELSE <<>>)

\* client.rs 81
RequestLine(req) ==
    <<req.method, " ">> \o ClientTarget(req.url) \o <<" ", "HTTP/1.1", CR, LF>>

\* client.rs 94-98
HostLine(url) ==
    IF url.port # None
    THEN <<"host", ": ", url.host, ":", url.port, CR, LF>>
    ELSE <<"host", ": ", url.host, CR, LF>>

\* client.rs 68-132.  kind: "ok" (an Encoder over buf), "err" (Err returned),
\* "panic" (the task unwinds); buf is the local buffer at that point.
ClientEncode(req) ==
    IF req.url.host = None
    THEN [kind |-> "err", error |-> "InvalidInput", buf |-> RequestLine(req)]
    ELSE IF req.len = NoLen
    THEN [kind |-> "panic", error |-> "chunked encoding is not implemented yet",
          buf |-> RequestLine(req) \o HostLine(req.url)]
    ELSE [kind |-> "ok", error |-> None,
          buf |-> RequestLine(req) \o HostLine(req.url)
                  \o HeaderLine("content-length", ToDec(req.len[1]))
                  \o HeaderLine("date", <<DateNow>>)
                  \o HeaderLines(req.headers)
                  \o <<CR, LF>>]

\* server.rs 88-90
StatusLine(res) ==
    <<"HTTP/1.1", " ", res.status, " ", res.reason, CR, LF>>

\* server.rs 82-115
ServerEncode(res) ==
    IF res.len = NoLen
    THEN [kind |-> "panic", error |-> "chunked encoding is not implemented yet",
          buf |-> StatusLine(res) \o <<"Transfer-Encoding", ": ", "chunked", CR, LF>>]
    ELSE [kind |-> "ok", error |-> None,
          buf |-> StatusLine(res)
                  \o HeaderLine("Content-Length", ToDec(res.len[1]))
                  \o HeaderLines(res.headers)
                  \o <<CR, LF>>]

EncodeOf(m) == IF m.role = "client" THEN ClientEncode(m) ELSE ServerEncode(m)

-----------------------------------------------------------------------------
(* The messages handed to encode() *)

Url(host, port, query, fragment) ==
    [path |-> "/p", host |-> host, port |-> port, query |-> query,
     fragment |-> fragment]

ExtraHeaders == {<<>>, <<[name |-> "x-a", value |-> <<"v">>]>>}

\* A body of n bytes whose length is known (Some(n)) or not (None).
ClientMessages ==
    {[role |-> "client", method |-> "GET", url |-> Url(h, None, None, None),
      len |-> l, body |-> BodyOfLen(n), headers |-> hs] :
        <<n, l>> \in {<<k, x>> \in (0..MaxBody) \X ({NoLen} \cup {Some(j) : j \in 0..MaxBody}) :
                         x = NoLen \/ x = Some(k)},
        h \in {"example.org", None}, hs \in {<<>>}}

ServerMessages ==
    {[role |-> "server", status |-> "200", reason |-> "OK",
      len |-> l, body |-> BodyOfLen(n), headers |-> hs] :
        <<n, l>> \in {<<k, x>> \in (0..MaxBody) \X ({NoLen} \cup {Some(j) : j \in 0..MaxBody}) :
                         x = NoLen \/ x = Some(k)},
        hs \in ExtraHeaders}

EncMessages == ClientMessages \cup ServerMessages

-----------------------------------------------------------------------------
(* Encoder::new and Encoder::poll_read *)

\* No Encoder is built yet: encode() is about to be called.
EncoderUnbuilt ==
    /\ epc = "encode"
    /\ headers = <<>>
    /\ cursor = 0
    /\ headers_done = FALSE
    /\ body_done = FALSE
    /\ body_bytes_read = 0
    /\ bodyPos = 0
    /\ poll = "none"
    /\ ret = 0
    /\ lastEmpty = FALSE
    /\ out = <<>>
    /\ zeroBuf = FALSE
    /\ pendings = 0
    /\ bodyEof = FALSE
    /\ eofSeen = FALSE

EncStart == msg \in EncMessages /\ EncoderUnbuilt

\* No ChunkedDecoder is built, and no chunked body is on the wire.
ChunkedUnbuilt ==
    /\ sent = [chunks |-> <<>>, trailers |-> <<>>, defect |-> "none", at |-> 0]
    /\ arrived = 0
    /\ cstate = "None"
    /\ remaining = 0
    /\ trailers = <<>>
    /\ published = <<>>
    /\ doneEntries = 0

\* No decode is running.
DecIdle ==
    /\ drole = "server"
    /\ wire = [version |-> "HTTP/1.1", hdrs |-> <<>>, headLen |-> 0]
    /\ source = <<>>
    /\ rpos = 0
    /\ buf = <<>>
    /\ dpc = "idle"
    /\ dres = "running"
    /\ derr = None
    /\ reads = 0
    /\ dhead = <<>>
    /\ dheaders = <<>>
    /\ bodyKind = "none"
    /\ bodyLimit = 0
    /\ bodyStart = 0
    /\ bodyOut = <<>>
    /\ bodyEnd = FALSE
    /\ ChunkedUnbuilt

\* encode(msg) is about to be called; no decode is running.
EncInit == EncStart /\ DecIdle /\ epc = "encode"

\* encode() followed by Encoder::new (client.rs 39-48, 131; server.rs 35-44, 114)
Encode ==
    /\ epc = "encode"
    /\ LET r == EncodeOf(msg) IN
        /\ epc' = CASE r.kind = "ok" -> "reading"
                    [] r.kind = "err" -> "failed"
                    [] OTHER -> "panicked"
        /\ headers' = IF r.kind = "ok" THEN r.buf ELSE <<>>
    /\ cursor' = 0
    /\ headers_done' = FALSE
    /\ body_done' = FALSE
    /\ body_bytes_read' = 0
    /\ UNCHANGED <<msg, bodyPos, poll, ret, lastEmpty, out, zeroBuf, pendings,
                   bodyEof, eofSeen>>
    /\ UNCHANGED <<decVars, chunkVars>>

\* The sizes of the caller's buffer.
BufSizes == {0, 1, 2, 7, 4096}

\* A faulty HeaderLen: it leaves half of the buffer to the body.
HeaderLenShort(buflen) == Min(Len(headers) - cursor, buflen \div 2)
\* client.rs 257 / server.rs 57: how many header bytes this call copies.
HeaderLen(buflen) == Min(Len(headers) - cursor, buflen)

\* client.rs 268 / server.rs 68: the body's poll_read on &mut buf[bytes_read..],
\* a buffer of `room` bytes.  It answers Pending, or Ready(n) with n bytes
\* written; n = 0 means an empty buffer or the end of the body.
BodyPoll(room) ==
    LET avail == Min(room, Len(msg.body) - bodyPos) IN
    (IF pendings < MaxPending THEN {[p |-> "Pending", n |-> 0]} ELSE {})
    \cup {[p |-> "Ready", n |-> n] : n \in (IF avail = 0 THEN {0} ELSE 1..avail)}

\* client.rs 247-278 / server.rs 47-78
PollRead(buflen) ==
    /\ epc = "reading"
    /\ LET len == IF ~headers_done THEN HeaderLen(buflen) ELSE 0
           cursor1 == cursor + len
           done1 == headers_done \/ (~headers_done /\ cursor1 = Len(headers))
           hbytes == SubSeq(headers, cursor + 1, cursor + len)
       IN
        /\ cursor' = cursor1
        /\ headers_done' = done1
        /\ lastEmpty' = (buflen = 0)
        /\ zeroBuf' = (zeroBuf \/ buflen = 0)
        /\ IF ~body_done
           THEN \E r \in BodyPoll(buflen - len) :
                  IF r.p = "Pending"
                  THEN \* ready! returns Poll::Pending from poll_read
                       /\ poll' = "Pending"
                       /\ ret' = 0
                       /\ pendings' = pendings + 1
                       /\ UNCHANGED <<body_done, body_bytes_read, bodyPos, out,
                                      bodyEof, eofSeen>>
                  ELSE /\ poll' = "Ready"
                       /\ ret' = len + r.n
                       /\ body_bytes_read' = body_bytes_read + r.n
                       /\ bodyPos' = bodyPos + r.n
                       /\ body_done' = (len + r.n = 0)
                       /\ out' = out \o hbytes
                                 \o SubSeq(msg.body, bodyPos + 1, bodyPos + r.n)
                       /\ bodyEof' = (bodyEof \/ (r.n = 0 /\ buflen - len > 0))
                       /\ eofSeen' = (eofSeen \/ (len + r.n = 0 /\ buflen > 0))
                       /\ UNCHANGED pendings
           ELSE /\ poll' = "Ready"
                /\ ret' = len
                /\ out' = out \o hbytes
                /\ eofSeen' = (eofSeen \/ (len = 0 /\ buflen > 0))
                /\ UNCHANGED <<body_done, body_bytes_read, bodyPos, pendings,
                               bodyEof>>
    /\ UNCHANGED <<msg, epc, headers>>
    /\ UNCHANGED <<decVars, chunkVars>>

Read == \E buflen \in BufSizes : PollRead(buflen)

EncNext == Encode \/ Read

SpecEnc == EncInit /\ [][EncNext]_vars

-----------------------------------------------------------------------------
(* Claims about the Encoder and encode() *)

\* C1: with every caller buffer of at least one byte, the bytes delivered by
\* the read calls up to the first 0 return are the head followed by the body.
C1_BufferSizeIndependence ==
    (epc = "reading" /\ ~zeroBuf /\ poll = "Ready" /\ ret = 0)
        => out = headers \o msg.body

\* C2: a read call that returns Pending leaves cursor, headers_done,
\* body_done and body_bytes_read as they were before the call.
C2_PendingKeepsState ==
    [][poll' = "Pending" /\ pendings' = pendings + 1
          => /\ cursor' = cursor
             /\ headers_done' = headers_done
             /\ body_done' = body_done
             /\ body_bytes_read' = body_bytes_read]_vars

C4_EndOfStream ==
    /\ (poll = "Ready" /\ ret = 0 /\ ~lastEmpty) => (headers_done /\ bodyEof)
    /\ (eofSeen /\ poll = "Ready") => ret = 0

\* C10: encode of a message whose body length is not known returns an
\* ordinary error: no Encoder, no byte emitted, no abort.
C10_UnknownLengthIsTypedError ==
    (epc # "encode" /\ msg.len = NoLen)
        => (epc = "failed" /\ headers = <<>> /\ out = <<>>)


-----------------------------------------------------------------------------
(* The wire read by decode(): heads as a peer writes them *)

WireNames == {"Content-Length", "content-length", "Transfer-Encoding", "x-a"}
WireValues == {<<"1">>, <<"chunked">>, <<"gzip">>}
WireHeaders == [name : WireNames, value : WireValues]
WireVersions == {"HTTP/1.1", "HTTP/1.0"}

RECURSIVE SeqsUpTo(_, _)
SeqsUpTo(S, n) ==
    IF n = 0 THEN {<<>>}
    ELSE LET shorter == SeqsUpTo(S, n - 1) IN
         shorter \cup {Append(q, x) : q \in {t \in shorter : Len(t) = n - 1}, x \in S}

\* A status line (read by the client) or a request line (read by the server).
StartLine(role, version) ==
    IF role = "client" THEN <<version, " ", "200", " ", "OK", CR, LF>>
    ELSE <<"POST", " ", "/p", " ", version, CR, LF>>

WireHead(role, version, hdrs) ==
    StartLine(role, version) \o HeaderLines(hdrs) \o <<CR, LF>>

\* The bytes after the head: a body, then the next message.
RestBytes == BodyOfLen(MaxRest)

\* Bytes after the head that repeat the end delimiter: CR LF CR LF ...
RestBlank == [i \in 1..MaxRest |-> IF i % 2 = 1 THEN CR ELSE LF]

\* Heads no tokenizer accepts: blank lines only, and a line of garbage.
BrokenHeads == {<<CR, LF, CR, LF>>, <<"garbage", CR, LF, CR, LF>>}

\* The source holds a head boundary: CR LF CR LF.
HasBoundary(src) ==
    \E i \in 4..Len(src) : SubSeq(src, i - 3, i) = <<CR, LF, CR, LF>>

-----------------------------------------------------------------------------
(* The head tokenizer (httparse), as decode() uses it *)

\* The index of the first CR LF of b, or 0.
FirstCrLf(b) ==
    IF \E i \in 1..(Len(b) - 1) : b[i] = CR /\ b[i + 1] = LF
    THEN CHOOSE i \in 1..(Len(b) - 1) :
            /\ b[i] = CR /\ b[i + 1] = LF
            /\ \A k \in 1..(i - 1) : ~(b[k] = CR /\ b[k + 1] = LF)
    ELSE 0

RECURSIVE SplitLines(_)
SplitLines(b) ==
    IF b = <<>> THEN <<>>
    ELSE LET e == FirstCrLf(b) IN
         IF e = 0 THEN <<b>>
         ELSE <<SubSeq(b, 1, e - 1)>> \o SplitLines(SubSeq(b, e + 2, Len(b)))

VersionOf(tok) ==
    CASE tok = "HTTP/1.1" -> 1
      [] tok = "HTTP/1.0" -> 0
      [] OTHER -> -1

\* The least element of a non-empty set of integers.
Least(S) == CHOOSE i \in S : \A k \in S : i <= k

\* The start line holds three fields, one of them a version HTTP/1.x.
StartVersion(role, start) ==
    IF Len(start) = 5 /\ start[2] = " " /\ start[4] = " "
    THEN VersionOf(IF role = "client" THEN start[1] ELSE start[5])
    ELSE -1

\* Every header line is "name: value".
HeaderLinesOk(hl) == \A i \in 1..Len(hl) : Len(hl[i]) >= 2 /\ hl[i][2] = ": "

RawHeaders(hl) ==
    [i \in 1..Len(hl) |-> [name |-> hl[i][1], value |-> SubSeq(hl[i], 3, Len(hl[i]))]]

\* The lines s+1 .. e-1 of lines.
LinesBetween(lines, s, e) == [i \in 1..(e - s - 1) |-> lines[s + i]]

\* The head whose start line is lines[s].
TokenizeFrom(role, lines, s) ==
    LET blank == {i \in (s + 1)..Len(lines) : lines[i] = <<>>} IN
    IF StartVersion(role, lines[s]) < 0
    THEN [status |-> "error", version |-> -1, start |-> <<>>, headers |-> <<>>]
    ELSE IF blank = {}
    THEN IF HeaderLinesOk(LinesBetween(lines, s, Len(lines) + 1))
         THEN [status |-> "partial", version |-> -1, start |-> <<>>, headers |-> <<>>]
         ELSE [status |-> "error", version |-> -1, start |-> <<>>, headers |-> <<>>]
    ELSE IF ~HeaderLinesOk(LinesBetween(lines, s, Least(blank)))
    THEN [status |-> "error", version |-> -1, start |-> <<>>, headers |-> <<>>]
    ELSE [status |-> "complete",
          version |-> StartVersion(role, lines[s]),
          start |-> lines[s],
          headers |-> RawHeaders(LinesBetween(lines, s, Least(blank)))]

\* httparse::Response::parse / httparse::Request::parse on the accumulated
\* buffer: "error", "partial", or "complete" with the version and the raw
\* header pairs in declaration order.  Leading empty lines are skipped.
TokenizeLines(role, lines) ==
    IF \A i \in 1..Len(lines) : lines[i] = <<>>
    THEN [status |-> "partial", version |-> -1, start |-> <<>>, headers |-> <<>>]
    ELSE TokenizeFrom(role, lines, Least({i \in 1..Len(lines) : lines[i] # <<>>}))

Tokenize(role, b) == TokenizeLines(role, SplitLines(b))

-----------------------------------------------------------------------------
(* Header sets *)

\* HeaderName::from_str (client.rs 194): names are kept in lower case.
Lower(name) ==
    CASE name = "Content-Length" -> "content-length"
      [] name = "CONTENT-LENGTH" -> "content-length"
      [] name = "Transfer-Encoding" -> "transfer-encoding"
      [] name = "TRANSFER-ENCODING" -> "transfer-encoding"
      [] name = "Date" -> "date"
      [] name = "X-Checksum" -> "x-checksum"
      [] OTHER -> name

HasHeader(hs, name) == \E i \in 1..Len(hs) : hs[i].name = name

\* res.insert_header (client.rs 196, 201): the values of `name` become <<value>>.
InsertHeader(hs, name, value) ==
    IF HasHeader(hs, name)
    THEN [i \in 1..Len(hs) |->
            IF hs[i].name = name THEN [name |-> name, values |-> <<value>>]
            ELSE hs[i]]
    ELSE Append(hs, [name |-> name, values |-> <<value>>])

\* req.header (server.rs 152): the value is added to the values of `name`.
AppendHeader(hs, name, value) ==
    IF HasHeader(hs, name)
    THEN [i \in 1..Len(hs) |->
            IF hs[i].name = name
            THEN [name |-> name, values |-> Append(hs[i].values, value)]
            ELSE hs[i]]
    ELSE Append(hs, [name |-> name, values |-> <<value>>])

\* client.rs 193-197
RECURSIVE InsertAll(_, _)
InsertAll(hs, raw) ==
    IF raw = <<>> THEN hs
    ELSE InsertAll(InsertHeader(hs, Lower(raw[1].name), raw[1].value), Tail(raw))

\* server.rs 151-153
RECURSIVE AppendAll(_, _)
AppendAll(hs, raw) ==
    IF raw = <<>> THEN hs
    ELSE AppendAll(AppendHeader(hs, Lower(raw[1].name), raw[1].value), Tail(raw))

\* res.header(&name) (client.rs 199, 204, 205): Some(values) is <<values>>.
Header(hs, name) ==
    IF HasHeader(hs, name)
    THEN <<hs[CHOOSE i \in 1..Len(hs) : hs[i].name = name].values>>
    ELSE <<>>

Last(q) == q[Len(q)]

IsDigit(c) == \E d \in 1..10 : DigitChar[d] = c
DigitValue(c) == (CHOOSE d \in 1..10 : DigitChar[d] = c) - 1

RECURSIVE DecValue(_)
DecValue(v) ==
    IF v = <<>> THEN 0
    ELSE DecValue(SubSeq(v, 1, Len(v) - 1)) * 10 + DigitValue(Last(v))

\* str::parse::<usize> (client.rs 237): Ok(n) is <<n>>, Err is <<>>.
ParseUsize(v) ==
    IF v # <<>> /\ \A i \in 1..Len(v) : IsDigit(v[i]) THEN <<DecValue(v)>> ELSE <<>>

-----------------------------------------------------------------------------
(* decode(): from the accumulated head to the message *)

DecodeErr(text) ==
    [res |-> "error", err |-> text, headers |-> <<>>, kind |-> "none", limit |-> 0]
DecodeMsg(hs, kind, limit) ==
    [res |-> "message", err |-> None, headers |-> hs, kind |-> kind, limit |-> limit]

\* client.rs 199-202: the date of a response that carries none.
WithDate(hs) ==
    IF Header(hs, "date") = <<>>
    THEN InsertHeader(hs, "date", <<"date", ": ", DateNow, CR, LF>>)
    ELSE hs

\* client.rs 204-244: the framing of a response.
ClientFraming(hs) ==
    LET cl == Header(hs, "content-length")
        te == Header(hs, "transfer-encoding")
    IN
    IF cl # <<>> /\ te # <<>>
    THEN DecodeErr("Unexpected Content-Length header")
    ELSE IF te # <<>> /\ te[1] # <<>> /\ Last(te[1]) = <<"chunked">>
    THEN DecodeMsg(hs, "chunked", 0)
    ELSE IF cl # <<>>
    THEN LET n == ParseUsize(Last(cl[1])) IN
         IF n = <<>> THEN DecodeErr("invalid digit found in string")
         ELSE DecodeMsg(hs, "fixed", n[1])
    ELSE DecodeMsg(hs, "empty", 0)

\* A faulty SupportedVersion: every HTTP/1.x minor version is accepted.
SupportedVersionAnyMinor(version) == version >= 0
\* client.rs 184 (version != 1), server.rs 160-165 (match version): the minor
\* version httparse reports is 1.
SupportedVersion(version) == version = 1

\* client.rs 159-245
ClientDecodeHead(b) ==
    LET t == Tokenize("client", b) IN
    IF t.status = "error" THEN DecodeErr("invalid HTTP head")
    ELSE IF t.status = "partial" THEN DecodeErr("Malformed HTTP head")
    ELSE IF ~SupportedVersion(t.version) THEN DecodeErr("Unsupported HTTP version")
    ELSE ClientFraming(WithDate(InsertAll(<<>>, t.headers)))

\* client.rs 170-175, 192 (the status code of the response); server.rs
\* 154-159 (the method and the target of the request).
HeadOf(role, b) ==
    LET t == Tokenize(role, b) IN
    IF role = "client" THEN <<t.start[3]>> ELSE <<t.start[1], t.start[3]>>

\* server.rs 167-175: the body of a request.
ServerBody(raw) ==
    IF \E i \in 1..Len(raw) : raw[i].name = "Content-Length"
    THEN "reader"
    ELSE "empty"

\* server.rs 142-178
ServerDecodeHead(b) ==
    LET t == Tokenize("server", b) IN
    IF t.status = "error" THEN DecodeErr("invalid HTTP head")
    ELSE IF t.status = "partial" THEN DecodeErr("Malformed HTTP head")
    ELSE IF ~SupportedVersion(t.version) THEN DecodeErr("Unsupported HTTP version")
    ELSE DecodeMsg(AppendAll(<<>>, t.headers), ServerBody(t.headers), 0)

-----------------------------------------------------------------------------
(* decode(): the head accumulation loop and the body *)

\* No encoder is running.
EncIdle ==
    /\ msg = [role |-> "server", status |-> "200", reason |-> "OK",
              len |-> Some(0), body |-> <<>>, headers |-> <<>>]
    /\ epc = "idle"
    /\ headers = <<>>
    /\ cursor = 0
    /\ headers_done = FALSE
    /\ body_done = FALSE
    /\ body_bytes_read = 0
    /\ bodyPos = 0
    /\ poll = "none"
    /\ ret = 0
    /\ lastEmpty = FALSE
    /\ out = <<>>
    /\ zeroBuf = FALSE
    /\ pendings = 0
    /\ bodyEof = FALSE
    /\ eofSeen = FALSE

\* decode(reader) is called on a source: a head a peer wrote, then MaxRest
\* more bytes, cut where the transport reaches end-of-input.
DecStart ==
    /\ drole \in {"client", "server"}
    /\ \E full \in
            {[version |-> v, hdrs |-> hs,
              head |-> WireHead(drole, v, hs)] :
                v \in WireVersions, hs \in SeqsUpTo(WireHeaders, MaxHeaderLines)}
            \cup {[version |-> "HTTP/1.1", hdrs |-> <<>>, head |-> h] :
                    h \in BrokenHeads} :
        /\ wire = [version |-> full.version, hdrs |-> full.hdrs,
                   headLen |-> Len(full.head)]
        /\ source \in {SubSeq(full.head \o rest, 1, k) :
                         rest \in {RestBytes, RestBlank},
                         k \in 0..(Len(full.head) + MaxRest)}
    /\ rpos = 0
    /\ buf = <<>>
    /\ dpc = "reading"
    /\ dres = "running"
    /\ derr = None
    /\ reads = 0
    /\ dhead = <<>>
    /\ dheaders = <<>>
    /\ bodyKind = "none"
    /\ bodyLimit = 0
    /\ bodyStart = 0
    /\ bodyOut = <<>>
    /\ bodyEnd = FALSE
    /\ ChunkedUnbuilt

DecInit == DecStart /\ EncIdle /\ dpc = "reading"

\* reader.read_until(b'\n', &mut buf) (client.rs 146, server.rs 129): the
\* position after the next LF, or the end of the source.
ReadUntilEnd(pos) ==
    IF \E i \in (pos + 1)..Len(source) : source[i] = LF
    THEN CHOOSE i \in (pos + 1)..Len(source) :
            /\ source[i] = LF
            /\ \A k \in (pos + 1)..(i - 1) : source[k] # LF
    ELSE Len(source)

\* A faulty OnEndOfInput: the server aborts as the client does.
OnEndOfInputAbort(role) == "panic"
\* client.rs 148-150, server.rs 131-133: read_until has returned 0.
OnEndOfInput(role) == IF role = "client" THEN "panic" ELSE "nomessage"

\* A faulty EndsInBoundary: the loop stops at the first CR LF.
EndsInBoundaryAtLineEnd(b) ==
    LET idx == Len(b) - 1 IN
    idx >= 1 /\ SubSeq(b, idx, idx + 1) = <<CR, LF>>
\* client.rs 153-156, server.rs 136-139
EndsInBoundary(b) ==
    LET idx == Len(b) - 1 IN
    idx >= 3 /\ SubSeq(b, idx - 2, idx + 1) = <<CR, LF, CR, LF>>

\* One turn of the loop: client.rs 145-157, server.rs 128-140.
DecodeRead ==
    /\ dpc = "reading"
    /\ LET end == ReadUntilEnd(rpos)
           bytes_read == end - rpos
           buf1 == buf \o SubSeq(source, rpos + 1, end)
       IN
        /\ rpos' = end
        /\ buf' = buf1
        /\ reads' = reads + 1
        /\ IF bytes_read = 0
           THEN /\ dpc' = "done"
                /\ dres' = OnEndOfInput(drole)
                /\ derr' = IF OnEndOfInput(drole) = "panic"
                           THEN "empty response" ELSE None
           ELSE /\ dpc' = IF EndsInBoundary(buf1) THEN "head" ELSE "reading"
                /\ UNCHANGED <<dres, derr>>
    /\ UNCHANGED <<drole, wire, source, dhead, dheaders, bodyKind, bodyLimit,
                   bodyStart, bodyOut, bodyEnd>>
    /\ UNCHANGED <<encVars, chunkVars>>

\* After the loop: client.rs 159-245, server.rs 142-178.
DecodeHead ==
    /\ dpc = "head"
    /\ LET r == IF drole = "client" THEN ClientDecodeHead(buf)
                ELSE ServerDecodeHead(buf)
       IN
        /\ dres' = r.res
        /\ derr' = r.err
        /\ dhead' = IF r.res = "message" THEN HeadOf(drole, buf) ELSE <<>>
        /\ dheaders' = r.headers
        /\ bodyKind' = r.kind
        /\ bodyLimit' = r.limit
        /\ dpc' = IF r.res = "message" THEN "body" ELSE "done"
        \* client.rs 221-226: ChunkedDecoder::new(reader, trailers_sender)
        /\ cstate' = IF r.kind = "chunked" THEN "AwaitingChunkSize" ELSE "None"
    /\ bodyStart' = rpos
    /\ UNCHANGED <<drole, wire, source, rpos, buf, reads, bodyOut, bodyEnd>>
    /\ UNCHANGED <<sent, arrived, remaining, trailers, published, doneEntries>>
    /\ UNCHANGED encVars

BodyBufSizes == {1, 4096}

\* How many bytes the body may still take from the reader: take(len)
\* (client.rs 238), the whole reader (server.rs 173), nothing (empty).
BodyBound ==
    CASE bodyKind = "fixed" -> bodyLimit
      [] bodyKind = "reader" -> Len(source) - rpos
      [] OTHER -> 0

\* The consumer reads the body of the decoded message into k bytes.
BodyRead(k) ==
    /\ dpc = "body"
    /\ bodyKind \in {"empty", "fixed", "reader"}
    /\ LET avail == Min(k, Min(BodyBound, Len(source) - rpos)) IN
       \E n \in (IF avail = 0 THEN {0} ELSE 1..avail) :
        /\ rpos' = rpos + n
        /\ bodyOut' = bodyOut \o SubSeq(source, rpos + 1, rpos + n)
        /\ bodyLimit' = IF bodyKind = "fixed" THEN bodyLimit - n ELSE bodyLimit
        /\ bodyEnd' = (n = 0)
    /\ UNCHANGED <<drole, wire, source, buf, dpc, dres, derr, reads, dhead,
                   dheaders,
                   bodyKind, bodyStart>>
    /\ UNCHANGED <<encVars, chunkVars>>

ReadBody == \E k \in BodyBufSizes : BodyRead(k)

DecNext == DecodeRead \/ DecodeHead \/ ReadBody

SpecDec == DecInit /\ [][DecNext]_vars

-----------------------------------------------------------------------------
(* Claims about decode() *)

\* The head on the wire declares a header of this name, in any letter case.
WireHas(name) == \E i \in 1..Len(wire.hdrs) : Lower(wire.hdrs[i].name) = name

\* The value of the last such header in declaration order.
WireLast(name) ==
    wire.hdrs[CHOOSE i \in 1..Len(wire.hdrs) :
                /\ Lower(wire.hdrs[i].name) = name
                /\ \A k \in (i + 1)..Len(wire.hdrs) : Lower(wire.hdrs[k].name) # name].value

\* decode has returned, and the source held a complete head.
HeadDecoded == dpc \in {"body", "done"} /\ HasBoundary(source)

\* C5: with Content-Length = n and no Transfer-Encoding, in either role the
\* body yields at most the n bytes after the head, and once it reports
\* end-of-data the source stands at the first byte of the next message.
C5_FixedLengthFraming ==
    \A n \in 0..9 :
      (/\ dres = "message"
       /\ WireHas("content-length") /\ ~WireHas("transfer-encoding")
       /\ ParseUsize(WireLast("content-length")) = <<n>>)
      => /\ Len(bodyOut) <= n
         /\ bodyOut = SubSeq(source, wire.headLen + 1, wire.headLen + Len(bodyOut))
         /\ rpos <= wire.headLen + n
         /\ bodyEnd => rpos = Min(wire.headLen + n, Len(source))

\* C6: a complete head with both a content-length and a transfer-encoding
\* header makes decode return an error, in either role.
C6_AmbiguousFramingIsError ==
    (HeadDecoded /\ WireHas("content-length") /\ WireHas("transfer-encoding"))
        => dres = "error"

\* C7: with a transfer-encoding header and no content-length, in either role
\* the body is Chunked over the rest of the source exactly when the last
\* transfer-encoding value is "chunked".
C7_ChunkedIffLastValue ==
    (/\ dres = "message"
     /\ WireHas("transfer-encoding") /\ ~WireHas("content-length"))
    => /\ bodyKind = "chunked" <=> WireLast("transfer-encoding") = <<"chunked">>
       /\ bodyKind = "chunked" => bodyStart = wire.headLen

\* C8: in the server role, on a source that ends before any CR LF CR LF,
\* decode makes at most Len(source) + 1 reads, is never stuck, and returns
\* the no-message result: no message, no error, no abort.
C8_ServerTruncatedInput ==
    (drole = "server" /\ dpc # "idle" /\ ~HasBoundary(source))
    => /\ dpc \in {"reading", "done"}
       /\ reads <= Len(source) + 1
       /\ dpc = "reading" => (dres = "running" /\ ENABLED DecodeRead)
       /\ dpc = "done" => (dres = "nomessage" /\ rpos = Len(source))

\* C8's case: a partial head of several lines, read to the end of input.
C8_Witness ==
    /\ drole = "server"
    /\ ~HasBoundary(source)
    /\ Len(source) > 0
    /\ reads >= 3
    /\ dpc = "done"
    /\ dres = "nomessage"

\* C9: in the client role, on a source that ends before any CR LF CR LF,
\* decode returns a ConnectionClosed error to its caller.
C9_ClientTruncatedInput ==
    (drole = "client" /\ dpc = "done" /\ ~HasBoundary(source))
        => (dres = "error" /\ derr = "ConnectionClosed")

\* C11: a complete, well-formed head whose start line carries a version
\* other than HTTP/1.1 (HTTP/1.0 here) makes decode return the error
\* "Unsupported HTTP version" in either role, never a message.
C11_UnsupportedVersionIsError ==
    (HeadDecoded /\ wire.version # "HTTP/1.1")
        => /\ dres = "error"
           /\ derr = "Unsupported HTTP version"
           /\ dheaders = <<>>
           /\ bodyKind = "none"

\* C11's case: an HTTP/1.0 head with headers has been decoded by the server.
C11_Witness ==
    /\ HeadDecoded
    /\ drole = "server"
    /\ wire.version = "HTTP/1.0"
    /\ Len(wire.hdrs) > 0
    /\ dres = "error"

\* The position of the last byte of the first CR LF CR LF of src.
BoundaryEnd(src) ==
    Least({i \in 4..Len(src) : SubSeq(src, i - 3, i) = <<CR, LF, CR, LF>>})

\* C19: on a source that holds CR LF CR LF, in either role the loop keeps
\* reading while the head buffer is a proper prefix that ends before the
\* first boundary, and stops with the head buffer equal to the source up to
\* and including that boundary; no later byte is in the head buffer, and the
\* body reader starts at the byte after it.
C19_HeadBoundary ==
    (HasBoundary(source) /\ dpc # "idle")
    => LET e == BoundaryEnd(source) IN
       /\ dpc = "reading" => /\ Len(buf) < e
                             /\ buf = SubSeq(source, 1, Len(buf))
                             /\ rpos = Len(buf)
                             /\ dres = "running"
                             /\ ENABLED DecodeRead
       /\ dpc # "reading" => buf = SubSeq(source, 1, e)
       /\ dpc = "head" => rpos = e
       /\ dpc \in {"body", "done"} => bodyStart = e
       /\ dpc = "body" => /\ rpos >= e
                          /\ bodyOut = SubSeq(source, e + 1, rpos)

\* C19's case: the loop has stopped at the boundary of a head of several
\* lines, and bytes of the source lie beyond it.
C19_Witness ==
    /\ dpc = "head"
    /\ reads >= 3
    /\ buf = SubSeq(source, 1, BoundaryEnd(source))
    /\ \E i \in (Len(buf) + 1)..Len(source) :
            SubSeq(source, i - 3, i) = <<CR, LF, CR, LF>>

\* Spellings of the header names that differ in letter case only.
CaseNames ==
    {"Content-Length", "content-length", "CONTENT-LENGTH",
     "Transfer-Encoding", "transfer-encoding", "TRANSFER-ENCODING", "x-a"}

\* The header lists that differ from hs in the letter case of names only.
Recasings(hs) ==
    {[i \in 1..Len(hs) |-> [name |-> f[i], value |-> hs[i].value]] :
        f \in {g \in [1..Len(hs) -> CaseNames] :
                 \A i \in 1..Len(hs) : Lower(g[i]) = Lower(hs[i].name)}}

\* What decode makes of a complete head in a role.
DecodeOutcome(role, b) ==
    IF role = "client" THEN ClientDecodeHead(b) ELSE ServerDecodeHead(b)

\* C18: the framing decision does not depend on the letter case of header
\* names: in either role, what decode has made of the head on the wire
\* (message or error, the kind of body, its length) is what it makes of
\* every head that differs from it only in the letter case of names.
C18_CaseInsensitiveFraming ==
    (/\ HeadDecoded
     /\ SubSeq(source, 1, wire.headLen) = WireHead(drole, wire.version, wire.hdrs))
    => \A hs \in Recasings(wire.hdrs) :
         LET r == DecodeOutcome(drole, WireHead(drole, wire.version, hs)) IN
         /\ dres = r.res
         /\ bodyKind = r.kind
         /\ bodyKind = "fixed" => bodyLimit + Len(bodyOut) = r.limit

-----------------------------------------------------------------------------
(* encode() on messages that carry a date, a port, a query, a fragment *)

\* A date the application has set on the message.
DateSet == "Sun, 01 Nov 2026 00:00:00 GMT"

HeadHeaders ==
    {<<>>,
     <<[name |-> "x-a", value |-> <<"v">>]>>,
     <<[name |-> "date", value |-> <<DateSet>>]>>,
     <<[name |-> "date", value |-> <<DateSet>>],
       [name |-> "x-a", value |-> <<"v">>]>>}

HeadMessages ==
    {[role |-> "client", method |-> "GET", url |-> Url("example.org", p, q, f),
      len |-> Some(n), body |-> BodyOfLen(n), headers |-> hs] :
        p \in {None, "8080"}, q \in {None, "q=1"}, f \in {None, "top"},
        n \in 0..1, hs \in HeadHeaders}
    \cup
    {[role |-> "server", status |-> "200", reason |-> "OK",
      len |-> Some(n), body |-> BodyOfLen(n), headers |-> hs] :
        n \in 0..1, hs \in HeadHeaders}

HeadInit == msg \in HeadMessages /\ EncoderUnbuilt /\ DecIdle

HeadNext == Encode

SpecHead == HeadInit /\ [][HeadNext]_vars

\* The lines of the encoded head that are date header lines.
DateLines(head) ==
    LET lines == SplitLines(head) IN
    {i \in 1..Len(lines) : lines[i] # <<>> /\ Lower(lines[i][1]) = "date"}

\* C16: every encoded head, request or response, holds exactly one date
\* line: the encoder's own when the message carries no date header, the
\* message's when it does.
C16_ExactlyOneDateLine ==
    (epc = "reading")
    => /\ Cardinality(DateLines(headers)) = 1
       /\ \A i \in DateLines(headers) :
            SplitLines(headers)[i] =
                <<"date", ": ",
                  IF HasHeader(msg.headers, "date") THEN DateSet ELSE DateNow>>

\* The request target of the encoded request line.
TargetOf(head) ==
    LET line == SplitLines(head)[1] IN SubSeq(line, 3, Len(line) - 2)

\* C17: the target on the request line is the path, then '?' and the query
\* if present, then '#' and the fragment if present, in that order.
C17_TargetOrder ==
    (epc = "reading" /\ msg.role = "client")
    => TargetOf(headers) =
         <<msg.url.path>>
         \o (IF msg.url.query # None THEN <<"?", msg.url.query>> ELSE <<>>)
         \o (IF msg.url.fragment # None THEN <<"#", msg.url.fragment>> ELSE <<>>)

-----------------------------------------------------------------------------
(* The chunked body on the wire: hex-size[;ext] CRLF data CRLF, repeated,
   then 0 CRLF, trailer lines and a bare CRLF *)

HexLower == <<"0", "1", "2", "3", "4", "5", "6", "7", "8", "9",
              "a", "b", "c", "d", "e", "f">>
HexUpper == <<"0", "1", "2", "3", "4", "5", "6", "7", "8", "9",
              "A", "B", "C", "D", "E", "F">>

IsHexDigit(c) == \E d \in 1..16 : HexLower[d] = c \/ HexUpper[d] = c
HexDigitValue(c) == (CHOOSE d \in 1..16 : HexLower[d] = c \/ HexUpper[d] = c) - 1

RECURSIVE HexValue(_)
HexValue(v) ==
    IF v = <<>> THEN 0
    ELSE HexValue(SubSeq(v, 1, Len(v) - 1)) * 16 + HexDigitValue(Last(v))

\* A faulty ParseHex: the size is read as a decimal number.
ParseHexAsDecimal(v) == ParseUsize(v)
\* The chunk size: a hexadecimal non-negative integer; Ok(n) is <<n>>,
\* a malformed size is <<>>.
ParseHex(v) ==
    IF v # <<>> /\ \A i \in 1..Len(v) : IsHexDigit(v[i])
    THEN <<HexValue(v)>>
    ELSE <<>>

\* The portion of a size line before any ';'.
SizePart(line) ==
    LET semi == {i \in 1..Len(line) : line[i] = ";"} IN
    IF semi = {} THEN line ELSE SubSeq(line, 1, Least(semi) - 1)

\* The chunks a peer writes: the size as it spells it, an extension or
\* none, the data.  The data of the last one looks like a terminal chunk.
ChunkChoices ==
    {[size |-> <<"4">>, ext |-> None, data |-> <<"W", "i", "k", "i">>],
     [size |-> <<"0", "2">>, ext |-> "name=val", data |-> <<CR, LF>>],
     [size |-> <<"A">>, ext |-> None,
      data |-> <<"0", CR, LF, CR, LF, "z", "z", ";", "4", "5">>]}

TrailerChoices == {<<>>, <<[name |-> "X-Checksum", value |-> <<"abc">>]>>}

\* What is wrong with the chunk `at` of a body (the terminal chunk is chunk
\* Len(chunks) + 1): nothing, a non-hexadecimal size, an empty size, no
\* CR LF after the data, or end-of-input where its size line should start.
Defects == {"none", "badsize", "nosize", "noterm", "eof"}

SizeLine(size, ext, defect) ==
    (CASE defect = "badsize" -> <<"z", "z">>
       [] defect = "nosize" -> <<>>
       [] OTHER -> size)
    \o (IF ext # None THEN <<";", ext>> ELSE <<>>)
    \o <<CR, LF>>

\* The bytes of the chunks from chunk i on, the terminal chunk and the
\* trailer block.
RECURSIVE ChunkedFrom(_, _, _, _, _)
ChunkedFrom(i, chunks, trailerLines, defect, at) ==
    LET d == IF i = at THEN defect ELSE "none" IN
    IF d = "eof" THEN <<>>
    ELSE IF i > Len(chunks)
    THEN SizeLine(<<"0">>, None, d) \o HeaderLines(trailerLines) \o <<CR, LF>>
    ELSE SizeLine(chunks[i].size, chunks[i].ext, d)
         \o chunks[i].data
         \o (IF d = "noterm" THEN <<>> ELSE <<CR, LF>>)
         \o ChunkedFrom(i + 1, chunks, trailerLines, defect, at)

ChunkedBytes(b) == ChunkedFrom(1, b.chunks, b.trailers, b.defect, b.at)

\* The chunked bodies of the model: the well-formed ones, and the ones
\* with one defect and no trailers.
ChunkedBodies ==
    {[chunks |-> cs, trailers |-> ts, defect |-> "none", at |-> 0] :
        cs \in SeqsUpTo(ChunkChoices, MaxChunks), ts \in TrailerChoices}
    \cup
    {b \in [chunks : SeqsUpTo(ChunkChoices, MaxChunks), trailers : {<<>>},
            defect : Defects \ {"none"}, at : 1..(MaxChunks + 1)] :
        /\ b.at <= Len(b.chunks) + 1
        /\ b.defect = "noterm" => b.at <= Len(b.chunks)}

\* The data of the chunks 1..n, in order.
RECURSIVE DataOf(_, _)
DataOf(chunks, n) ==
    IF n = 0 THEN <<>> ELSE DataOf(chunks, n - 1) \o chunks[n].data

\* The head of a response whose body is chunked.
ChunkedHead ==
    WireHead("client", "HTTP/1.1",
             <<[name |-> "Transfer-Encoding", value |-> <<"chunked">>]>>)

-----------------------------------------------------------------------------
(* ChunkedDecoder: the state machine over the reader that decode hands it *)

\* decode(reader) is called on a response whose body is chunked; none of
\* the body has been delivered by the transport yet.
ChunkStart ==
    /\ drole = "client"
    /\ wire = [version |-> "HTTP/1.1",
               hdrs |-> <<[name |-> "Transfer-Encoding", value |-> <<"chunked">>]>>,
               headLen |-> Len(ChunkedHead)]
    /\ sent \in ChunkedBodies
    /\ source = ChunkedHead \o ChunkedBytes(sent)
    /\ rpos = 0
    /\ buf = <<>>
    /\ dpc = "reading"
    /\ dres = "running"
    /\ derr = None
    /\ reads = 0
    /\ dhead = <<>>
    /\ dheaders = <<>>
    /\ bodyKind = "none"
    /\ bodyLimit = 0
    /\ bodyStart = 0
    /\ bodyOut = <<>>
    /\ bodyEnd = FALSE
    /\ arrived = 0
    /\ cstate = "None"
    /\ remaining = 0
    /\ trailers = <<>>
    /\ published = <<>>
    /\ doneEntries = 0

ChunkInit == ChunkStart /\ EncIdle /\ dpc = "reading"

\* The bytes of the body the transport has delivered and the decoder has
\* not consumed.
Window == SubSeq(source, rpos + 1, bodyStart + arrived)

\* The transport has delivered every byte and reports end-of-input next.
AtEof == bodyStart + arrived = Len(source)

\* What a step of the ChunkedDecoder leaves alone.
ChunkFrame ==
    /\ UNCHANGED <<drole, wire, source, buf, dpc, dres, reads, dhead, dheaders,
                   bodyKind, bodyLimit, bodyStart, sent, arrived>>
    /\ UNCHANGED encVars

\* The transport delivers more bytes of the body: a partial read.
Arrive ==
    /\ dpc = "body" /\ bodyKind = "chunked"
    /\ ~AtEof
    /\ \E n \in (arrived + 1)..(Len(source) - bodyStart) : arrived' = n
    /\ UNCHANGED <<drole, wire, source, rpos, buf, dpc, dres, derr, reads,
                   dhead, dheaders, bodyKind, bodyLimit, bodyStart, bodyOut,
                   bodyEnd>>
    /\ UNCHANGED <<sent, cstate, remaining, trailers, published, doneEntries>>
    /\ UNCHANGED encVars

\* AwaitingChunkSize: one line is read; its part before any ';' is the
\* size in hexadecimal, the rest is discarded.  A malformed or missing
\* line is a MalformedChunk error; size 0 is the terminal chunk.
ChunkSize ==
    /\ cstate = "AwaitingChunkSize"
    /\ LET e == FirstCrLf(Window)
           size == IF e = 0 THEN <<>> ELSE ParseHex(SizePart(SubSeq(Window, 1, e - 1)))
       IN
        /\ e > 0 \/ AtEof
        /\ IF size = <<>>
           THEN /\ cstate' = "Failed"
                /\ derr' = "MalformedChunk"
                /\ UNCHANGED <<rpos, remaining>>
           ELSE /\ cstate' = IF size[1] = 0 THEN "AwaitingTrailersOrEnd"
                             ELSE "ReadingChunkData"
                /\ remaining' = size[1]
                /\ rpos' = rpos + e + 1
                /\ UNCHANGED derr
    /\ UNCHANGED <<bodyOut, bodyEnd, trailers, published, doneEntries>>
    /\ ChunkFrame

\* ReadingChunkData(remaining): up to `remaining` bytes go from the source
\* to the consumer's buffer of k bytes.
ChunkData(k) ==
    /\ cstate = "ReadingChunkData"
    /\ Window # <<>>
    /\ LET n == Min(k, Min(remaining, Len(Window))) IN
        /\ bodyOut' = bodyOut \o SubSeq(Window, 1, n)
        /\ rpos' = rpos + n
        /\ remaining' = remaining - n
        /\ cstate' = IF remaining - n = 0 THEN "AwaitingChunkDataTerminator"
                     ELSE "ReadingChunkData"
    /\ UNCHANGED <<bodyEnd, derr, trailers, published, doneEntries>>
    /\ ChunkFrame

ReadChunkData == \E k \in BodyBufSizes : ChunkData(k)

\* A faulty IsTerminator: any two bytes pass for the CR LF.
IsTerminatorUnchecked(w) == Len(w) >= 2
\* The CR LF that must follow chunk data.
IsTerminator(w) == Len(w) >= 2 /\ SubSeq(w, 1, 2) = <<CR, LF>>

\* AwaitingChunkDataTerminator: exactly the CR LF after the data is
\* consumed; anything else is a MalformedChunk error.
ChunkDataTerminator ==
    /\ cstate = "AwaitingChunkDataTerminator"
    /\ Len(Window) >= 2 \/ AtEof
    /\ IF IsTerminator(Window)
       THEN /\ cstate' = "AwaitingChunkSize"
            /\ rpos' = rpos + 2
            /\ UNCHANGED derr
       ELSE /\ cstate' = "Failed"
            /\ derr' = "MalformedChunk"
            /\ UNCHANGED rpos
    /\ UNCHANGED <<bodyOut, bodyEnd, remaining, trailers, published, doneEntries>>
    /\ ChunkFrame

\* A faulty TrailersOrEnd: the signal is sent as each trailer line is read.
TrailersOrEndEager ==
    /\ cstate = "AwaitingTrailersOrEnd"
    /\ LET e == FirstCrLf(Window)
           line == SubSeq(Window, 1, e - 1)
       IN
        /\ e > 0 \/ AtEof
        /\ IF e > 0 /\ line = <<>>
           THEN /\ cstate' = "Done"
                /\ published' = Append(published, trailers)
                /\ doneEntries' = doneEntries + 1
                /\ rpos' = rpos + 2
                /\ UNCHANGED <<derr, trailers>>
           ELSE IF e > 0 /\ HeaderLinesOk(<<line>>)
           THEN /\ trailers' = InsertHeader(trailers, Lower(line[1]),
                                            SubSeq(line, 3, Len(line)))
                /\ published' = Append(published, trailers')
                /\ rpos' = rpos + e + 1
                /\ UNCHANGED <<cstate, derr, doneEntries>>
           ELSE /\ cstate' = "Failed"
                /\ derr' = "MalformedChunk"
                /\ UNCHANGED <<rpos, trailers, published, doneEntries>>
    /\ UNCHANGED <<bodyOut, bodyEnd, remaining>>
    /\ ChunkFrame
\* AwaitingTrailersOrEnd: a header line is read as in head parsing and
\* added to Trailers; the blank line moves to Done and publishes Trailers
\* to the one-shot signal, an empty set included.
TrailersOrEnd ==
    /\ cstate = "AwaitingTrailersOrEnd"
    /\ LET e == FirstCrLf(Window)
           line == SubSeq(Window, 1, e - 1)
       IN
        /\ e > 0 \/ AtEof
        /\ IF e > 0 /\ line = <<>>
           THEN /\ cstate' = "Done"
                /\ published' = Append(published, trailers)
                /\ doneEntries' = doneEntries + 1
                /\ rpos' = rpos + 2
                /\ UNCHANGED <<derr, trailers>>
           ELSE IF e > 0 /\ HeaderLinesOk(<<line>>)
           THEN /\ trailers' = InsertHeader(trailers, Lower(line[1]),
                                            SubSeq(line, 3, Len(line)))
                /\ rpos' = rpos + e + 1
                /\ UNCHANGED <<cstate, derr, published, doneEntries>>
           ELSE /\ cstate' = "Failed"
                /\ derr' = "MalformedChunk"
                /\ UNCHANGED <<rpos, trailers, published, doneEntries>>
    /\ UNCHANGED <<bodyOut, bodyEnd, remaining>>
    /\ ChunkFrame

\* Done: every further read reports end-of-data and changes nothing else.
DoneRead ==
    /\ cstate = "Done"
    /\ bodyEnd' = TRUE
    /\ UNCHANGED <<rpos, bodyOut, derr, cstate, remaining, trailers, published,
                   doneEntries>>
    /\ ChunkFrame

ChunkNext ==
    \/ DecodeRead
    \/ DecodeHead
    \/ Arrive
    \/ ChunkSize
    \/ ReadChunkData
    \/ ChunkDataTerminator
    \/ TrailersOrEnd
    \/ DoneRead

SpecChunked == ChunkInit /\ [][ChunkNext]_vars

-----------------------------------------------------------------------------
(* Claims about the ChunkedDecoder *)

\* Some step of the state machine other than a read after Done can be taken.
ChunkStepEnabled ==
    \/ ENABLED Arrive
    \/ ENABLED ChunkSize
    \/ ENABLED ReadChunkData
    \/ ENABLED ChunkDataTerminator
    \/ ENABLED TrailersOrEnd

\* The data of all chunks of the body on the wire, in order.
Payload == DataOf(sent.chunks, Len(sent.chunks))

\* C13: the one-shot trailers signal has been sent exactly once when the
\* decoder is in Done and never in any other state, so it is sent at the
\* step from AwaitingTrailersOrEnd to Done; what is sent is the set of the
\* trailer lines on the wire, the empty set when there is none; Done is
\* entered at most once; and when the signal has been sent every payload
\* byte of every chunk has been yielded.
C13_OneShotTrailers ==
    /\ Len(published) = (IF cstate = "Done" THEN 1 ELSE 0)
    /\ doneEntries = Len(published)
    /\ cstate # "Done" => ~bodyEnd
    /\ published # <<>> => /\ published[1] = InsertAll(<<>>, sent.trailers)
                           /\ bodyOut = Payload
                           /\ sent.defect = "none"

\* C13's case: a body of two chunks and a trailer line has been decoded to
\* Done, and the signal holds the trailer.
C13_Witness ==
    /\ cstate = "Done"
    /\ Len(sent.chunks) = 2
    /\ published = <<<<[name |-> "x-checksum", values |-> <<<<"abc">>>>]>>>>

\* C14: for a well-formed chunked body, however the transport splits it
\* into partial reads, the bytes yielded are at every moment a prefix of
\* the concatenation of the chunk data, the decoder never fails and is
\* never stuck before Done, in Done the bytes yielded are the whole
\* concatenation and the source stands at its end, and end-of-data is
\* reported in Done only.
C14_ChunkedPayload ==
    (sent.defect = "none" /\ cstate # "None")
    => /\ Len(bodyOut) <= Len(Payload)
       /\ bodyOut = SubSeq(Payload, 1, Len(bodyOut))
       /\ cstate # "Failed" /\ derr = None
       /\ cstate # "Done" => (ChunkStepEnabled /\ ~bodyEnd)
       /\ cstate = "Done" => /\ bodyOut = Payload
                             /\ rpos = Len(source)
                             /\ ENABLED DoneRead

\* C14's case: a body whose chunks spell their sizes "A" and "02;name=val"
\* has been decoded, and a read after Done has reported end-of-data.
C14_Witness ==
    /\ cstate = "Done"
    /\ bodyEnd
    /\ Len(sent.chunks) = 2
    /\ sent.chunks[1].size = <<"A">>
    /\ sent.chunks[2].ext # None
    /\ bodyOut = sent.chunks[1].data \o <<CR, LF>>

\* How many chunks of a malformed body yield their data before the error.
GoodChunks == IF sent.defect = "noterm" THEN sent.at ELSE sent.at - 1

\* Where in the source the malformed size line starts, or the missing
\* CR LF should be.
DefectPos ==
    Len(source)
    - Len(ChunkedFrom(sent.at, sent.chunks, sent.trailers, sent.defect, sent.at))
    + (IF sent.defect = "noterm"
       THEN Len(SizeLine(sent.chunks[sent.at].size, sent.chunks[sent.at].ext, "none"))
            + Len(sent.chunks[sent.at].data)
       ELSE 0)

\* C15: on a body whose size line is missing, empty or not hexadecimal, or
\* whose chunk data is not followed by CR LF, the decoder never reaches
\* Done; it is never stuck before it fails; it fails with MalformedChunk
\* at the malformed place, having yielded exactly the data of the chunks
\* before it; and once it has failed no read yields a byte.
C15_MalformedChunk ==
    (sent.defect # "none" /\ cstate # "None")
    => /\ cstate # "Done" /\ ~bodyEnd /\ published = <<>>
       /\ Len(bodyOut) <= Len(DataOf(sent.chunks, GoodChunks))
       /\ bodyOut = SubSeq(DataOf(sent.chunks, GoodChunks), 1, Len(bodyOut))
       /\ rpos <= DefectPos
       /\ cstate # "Failed" => (ChunkStepEnabled /\ derr = None)
       /\ cstate = "Failed" => /\ derr = "MalformedChunk"
                               /\ rpos = DefectPos
                               /\ bodyOut = DataOf(sent.chunks, GoodChunks)
                               /\ ~ENABLED ReadChunkData
                               /\ ~ENABLED DoneRead

\* C15's case: the CR LF after the data of the second chunk is absent, and
\* the decoder has failed after yielding both chunks.
C15_Witness ==
    /\ sent.defect = "noterm"
    /\ sent.at = 2
    /\ cstate = "Failed"
    /\ derr = "MalformedChunk"
    /\ Len(bodyOut) > 4

-----------------------------------------------------------------------------
(* A message encoded by one role, copied to the transport, and decoded by
   the other role *)

\* Messages with a fixed-length body that encode() accepts.
TripMessages ==
    {[role |-> "client", method |-> "GET",
      url |-> Url("example.org", None, None, None),
      len |-> Some(n), body |-> BodyOfLen(n), headers |-> hs] :
        n \in 0..MaxBody, hs \in ExtraHeaders}
    \cup {m \in ServerMessages : m.len # NoLen}

TripInit == msg \in TripMessages /\ EncoderUnbuilt /\ DecIdle

\* io::copy(&mut req, &mut stream) (client.rs 59) has read 0 from the Encoder
\* into a non-empty buffer: the bytes copied so far are what the peer's
\* decode reads, followed by end-of-input.
Deliver ==
    /\ epc = "reading"
    /\ dpc = "idle"
    /\ poll = "Ready" /\ ret = 0 /\ ~lastEmpty
    /\ epc' = "sent"
    /\ drole' = IF msg.role = "client" THEN "server" ELSE "client"
    /\ source' = out
    /\ wire' = [version |-> "HTTP/1.1", hdrs |-> <<>>, headLen |-> Len(headers)]
    /\ dpc' = "reading"
    /\ UNCHANGED <<msg, headers, cursor, headers_done, body_done,
                   body_bytes_read, bodyPos, poll, ret, lastEmpty, out,
                   zeroBuf, pendings, bodyEof, eofSeen>>
    /\ UNCHANGED <<rpos, buf, dres, derr, reads, dhead, dheaders, bodyKind,
                   bodyLimit, bodyStart, bodyOut, bodyEnd>>
    /\ UNCHANGED chunkVars

TripNext == Encode \/ Read \/ Deliver \/ DecodeRead \/ DecodeHead \/ ReadBody

SpecTrip == TripInit /\ [][TripNext]_vars

\* The head of a message as its peer should decode it.
HeadSent(m) ==
    IF m.role = "client" THEN <<m.method, m.url.path>> ELSE <<m.status>>

\* C12: a message with a fixed-length body, encoded by one role and decoded
\* by the other, comes out as a message with the same head, with every
\* header of the original under the same name and value, and with a body
\* that yields the original body bytes and then end-of-data.
C12_RoundTrip ==
    (epc = "sent" /\ dpc \in {"body", "done"})
    => /\ dres = "message"
       /\ dhead = HeadSent(msg)
       /\ \A i \in 1..Len(msg.headers) :
            Header(dheaders, Lower(msg.headers[i].name))
                = <<<<msg.headers[i].value>>>>
       /\ bodyOut = SubSeq(msg.body, 1, Len(bodyOut))
       /\ bodyEnd => bodyOut = msg.body

-----------------------------------------------------------------------------
(* Claims about the Encoder's flags *)

\* C20: in every reachable state of the Encoder, for reads into buffers of
\* any size (the zero-length buffer included), body_done implies
\* headers_done.
C20_BodyDoneImpliesHeadersDone == body_done => headers_done
=============================================================================
